---- MODULE Spec2Model ----
(***************************************************************************)
(* Rendering of build requests (osbs/build/build_request.py).              *)
(*                                                                         *)
(* One BuildRequest instance is modelled: its parameter spec, the outer    *)
(* template and the plugin pipeline it loads lazily from the template      *)
(* store, and the calls a client makes on it.  Documents are records;      *)
(* an optional value is a sequence of length 0 (None) or 1.  Text that     *)
(* the code concatenates or parses (image names, mount paths, URLs) is a   *)
(* sequence of tokens.                                                     *)
(***************************************************************************)
EXTENDS Integers, Sequences, FiniteSets, TLC

VARIABLES
    key,                          \* BuildRequest.key of the instance's class
    store_outer,                  \* <build_json_store>/<key>.json
    store_inner,                  \* <build_json_store>/<key>_inner.json
    params,                       \* self.spec: parameter name -> value
    build_json,                   \* self.build_json (None or the rendered template)
    _template,                    \* self._template
    _inner_template,              \* self._inner_template (the pipeline self.dj works on)
    _resource_limits,             \* self._resource_limits
    _openshift_required_version,  \* self._openshift_required_version
    renders,                      \* number of render calls made on the instance
    last                          \* the most recent call and its outcome

vars == <<key, store_outer, store_inner, params, build_json, _template,
          _inner_template, _resource_limits, _openshift_required_version,
          renders, last>>

----------------------------------------------------------------------------
(* Values *)

None == "None"
NoDoc == <<>>
NoText == <<>>
Some(x) == <<x>>
EmptyArgs == [k \in {} |-> None]

PROD_BUILD_TYPE == "prod"
SIMPLE_BUILD_TYPE == "simple"
SECRETS_PATH == "/var/run/secrets/atomic-reactor"
DEFAULT_GIT_REF == "master"
DefaultRequiredVersion == <<0, 5, 4>>
SecretsArrayVersion == <<1, 0, 6>>

Min(S) == CHOOSE x \in S : \A y \in S : x <= y

RECURSIVE Concat(_)
Concat(ss) == IF ss = <<>> THEN <<>> ELSE Head(ss) \o Concat(Tail(ss))

SetKey(f, k, v) == [x \in DOMAIN f \cup {k} |-> IF x = k THEN v ELSE f[x]]

\* Python's ordering of lists: lexicographic, a proper prefix is smaller.
RECURSIVE ListLess(_, _)
ListLess(a, b) ==
    IF b = <<>> THEN FALSE
    ELSE IF a = <<>> THEN TRUE
    ELSE IF Head(a) < Head(b) THEN TRUE
    ELSE IF Head(a) > Head(b) THEN FALSE
    ELSE ListLess(Tail(a), Tail(b))

----------------------------------------------------------------------------
(* The plugin pipeline and its manipulator (osbs.build.manipulate).        *)
(* A pipeline maps each plugin type it declares to a sequence of plugins   *)
(* [name, has_args, args].                                                 *)

PluginTypes == <<"prebuild_plugins", "postbuild_plugins", "exit_plugins">>

ArgOrder == <<"url", "use_auth", "repourls", "command", "parent_registry",
              "labels", "target", "root", "hub", "push_url", "git_ref",
              "pulp_secret_path", "pdc_secret_path", "pulp_registry_name",
              "username", "password", "nfs_server_path", "nfs_dest_dir",
              "imagestream", "docker_image_repo", "author">>

Plugin(name) == [name |-> name, has_args |-> FALSE, args |-> EmptyArgs]
PluginWith(name, args) == [name |-> name, has_args |-> TRUE, args |-> args]

plugin_index(p, type, name) ==
    IF type \notin DOMAIN p THEN 0
    ELSE LET S == {i \in 1..Len(p[type]) : p[type][i].name = name}
         IN  IF S = {} THEN 0 ELSE Min(S)

dock_json_has_plugin_conf(p, type, name) == plugin_index(p, type, name) # 0

dock_json_get_plugin_conf(p, type, name) == p[type][plugin_index(p, type, name)]

HasArg(p, type, name, k) ==
    /\ dock_json_has_plugin_conf(p, type, name)
    /\ dock_json_get_plugin_conf(p, type, name).has_args
    /\ k \in DOMAIN dock_json_get_plugin_conf(p, type, name).args

ArgOf(p, type, name, k) == dock_json_get_plugin_conf(p, type, name).args[k]

set_arg(p, type, name, k, v) ==
    LET i == plugin_index(p, type, name)
    IN  [p EXCEPT ![type][i] =
            [name |-> name, has_args |-> TRUE, args |-> SetKey(@.args, k, v)]]

\* merge_arg replacing the argument by the partial mapping.
merge_arg_overwriting(p, type, name, k, partial) ==
    LET i == plugin_index(p, type, name)
    IN  [p EXCEPT ![type][i] =
            [name |-> name, has_args |-> TRUE,
             args |-> SetKey(p[type][i].args, k, partial)]]

merge_arg(p, type, name, k, partial) ==
    LET i    == plugin_index(p, type, name)
        old  == p[type][i].args
        both == IF k \in DOMAIN old
                THEN [x \in DOMAIN old[k] \cup DOMAIN partial |->
                         IF x \in DOMAIN partial THEN partial[x] ELSE old[k][x]]
                ELSE partial
    IN  [p EXCEPT ![type][i] =
            [name |-> name, has_args |-> TRUE, args |-> SetKey(old, k, both)]]

remove_from(p, type, name) ==
    LET i == plugin_index(p, type, name)
    IN  IF i = 0 THEN p
        ELSE [p EXCEPT ![type] = SubSeq(@, 1, i - 1) \o SubSeq(@, i + 1, Len(@))]

\* json.dumps of the pipeline: a token per plugin type, plugin and argument.
dump_args(a) ==
    LET ks == SelectSeq(ArgOrder, LAMBDA k : k \in DOMAIN a)
    IN  [i \in 1..Len(ks) |-> [t |-> "arg", k |-> ks[i], v |-> a[ks[i]]]]

dump_plugin(s) ==
    <<[t |-> "plugin", k |-> s.name, v |-> s.has_args]>>
        \o (IF s.has_args THEN dump_args(s.args) ELSE <<>>)

dump_type(p, type) ==
    <<[t |-> "type", k |-> type, v |-> Len(p[type])]>>
        \o Concat([i \in 1..Len(p[type]) |-> dump_plugin(p[type][i])])

json_dumps(p) ==
    LET ts == SelectSeq(PluginTypes, LAMBDA g : g \in DOMAIN p)
    IN  Concat([i \in 1..Len(ts) |-> dump_type(p, ts[i])])

\* json.loads of such a string.
RECURSIVE loads_from(_, _, _, _)
loads_from(toks, i, p, type) ==
    IF i > Len(toks) THEN p
    ELSE LET tk == toks[i]
         IN  IF tk.t = "type"
             THEN loads_from(toks, i + 1, SetKey(p, tk.k, <<>>), tk.k)
             ELSE IF tk.t = "plugin"
             THEN loads_from(toks, i + 1,
                    [p EXCEPT ![type] = Append(@,
                        [name |-> tk.k, has_args |-> tk.v, args |-> EmptyArgs])],
                    type)
             ELSE loads_from(toks, i + 1,
                    [p EXCEPT ![type][Len(p[type])].args = SetKey(@, tk.k, tk.v)],
                    type)

json_loads(toks) == loads_from(toks, 1, [g \in {} |-> <<>>], None)

----------------------------------------------------------------------------
(* The parameter spec (osbs.build.spec): CommonSpec, SimpleSpec, ProdSpec. *)

CommonParams == {"git_uri", "git_ref", "registry_uri", "user", "component",
                 "openshift_uri", "yum_repourls", "use_auth"}

ProdParams == CommonParams \cup
    {"pulp_secret", "pdc_secret", "koji_target", "kojiroot", "kojihub",
     "pulp_registry", "nfs_server_path", "nfs_dest_dir", "sources_command",
     "architecture", "vendor", "build_host", "authoritative_registry",
     "git_push_url", "git_push_username", "git_branch", "base_image",
     "name_label"}

Declared(k) == IF k = PROD_BUILD_TYPE THEN ProdParams ELSE CommonParams

CommonRequired == {"git_uri", "git_ref", "user", "component", "registry_uri",
                   "openshift_uri"}

Required(k) ==
    IF k = PROD_BUILD_TYPE
    THEN CommonRequired \cup {"sources_command", "architecture", "vendor",
                              "build_host", "authoritative_registry"}
    ELSE CommonRequired

\* yum_repourls is None, a list of strings or (by a caller's mistake) a string.
YumNone == [kind |-> "none", items |-> <<>>]
YumList(urls) == [kind |-> "list", items |-> urls]
YumScalar(url) == [kind |-> "str", items |-> <<url>>]

DefaultOf(n) ==
    CASE n = "git_ref"      -> DEFAULT_GIT_REF
      [] n = "yum_repourls" -> YumNone
      [] n = "git_push_url" -> NoText
      [] OTHER              -> None

Unset(n) ==
    CASE n = "yum_repourls" -> YumNone
      [] n = "git_push_url" -> NoText
      [] OTHER              -> None

\* A spec on which set_params was never called.
EmptyParams == [n \in ProdParams |-> DefaultOf(n)]

\* The names set_params takes: the declared ones and, for production,
\* source_secret, the older name of pulp_secret.
Accepted(k) ==
    IF k = PROD_BUILD_TYPE THEN Declared(k) \cup {"source_secret"} ELSE Declared(k)

\* The values a set_params(**kw) call stores.
StoredParams(k, kw) ==
    [n \in ProdParams |->
        IF n = "pulp_secret" /\ k = PROD_BUILD_TYPE
           /\ ~("pulp_secret" \in DOMAIN kw /\ kw["pulp_secret"] \notin {None, ""})
           /\ "source_secret" \in DOMAIN kw
        THEN kw["source_secret"]
        ELSE IF n \in Declared(k) /\ n \in DOMAIN kw THEN kw[n]
        ELSE IF n \in Declared(k) THEN DefaultOf(n)
        ELSE Unset(n)]

\* set_params storing what it knows of a mapping with unknown names.
spec_set_params_lenient(k, kw) ==
    IF "yum_repourls" \in DOMAIN kw /\ kw["yum_repourls"].kind = "str"
    THEN "ValidationError"
    ELSE "none"

spec_set_params(k, kw) ==
    IF ~(DOMAIN kw \subseteq Accepted(k)) THEN "UnknownParameterError"
    ELSE IF "yum_repourls" \in DOMAIN kw /\ kw["yum_repourls"].kind = "str"
    THEN "ValidationError"
    ELSE "none"

\* validate looking at the common parameters only.
spec_validate_common_only(k, ps) ==
    IF \E n \in CommonRequired : ps[n] = Unset(n) THEN "ValidationError"
    ELSE IF ps["yum_repourls"].kind = "str" THEN "ValidationError"
    ELSE "none"

spec_validate(k, ps) ==
    IF \E n \in Required(k) : ps[n] = Unset(n) THEN "ValidationError"
    ELSE IF ps["yum_repourls"].kind = "str" THEN "ValidationError"
    ELSE "none"

\* Derived parameters.
BuildId == "build-id"
ImageTagOf(ps) ==
    IF ps["user"] = None \/ ps["component"] = None THEN NoText
    ELSE <<ps["user"], "/", ps["component"], ":", "tag">>
TriggerImagestreamtagOf(ps) == ps["base_image"]
ImagestreamNameOf(ps) == ps["name_label"]
ImagestreamUrlOf(ps) == <<ps["registry_uri"], "/", ps["name_label"]>>

\* Python truthiness of a string parameter.
Truthy(v) == v # None /\ v # ""

----------------------------------------------------------------------------
(* Rendering works on a context: the instance's lazily loaded documents    *)
(* and the exception raised so far ("none" while rendering goes on).  A    *)
(* step that finds an exception raised leaves the context alone.           *)

Ctx(t, i) == [template |-> t, inner |-> i, err |-> "none"]
Ok(c) == c.err = "none"
Raise(c, e) == [c EXCEPT !.err = e]

\* BuildRequest.template
template(c) ==
    IF c.template = NoDoc THEN [c EXCEPT !.template = Some(store_outer)] ELSE c

\* BuildRequest.inner_template, BuildRequest.dj
dj(c) ==
    LET d == template(c)
    IN  IF d.inner = NoDoc THEN [d EXCEPT !.inner = Some(store_inner)] ELSE d

Tpl(c) == c.template[1]
Pipe(c) == c.inner[1]
SetTpl(c, t) == [c EXCEPT !.template = Some(t)]
SetPipe(c, p) == [c EXCEPT !.inner = Some(p)]

\* self.dj.dock_json_has_plugin_conf(...)
has_plugin_conf(c, type, name) == dock_json_has_plugin_conf(Pipe(dj(c)), type, name)

\* dock_json_set_arg leaving the pipeline alone when the stage is absent.
dock_json_set_arg_ignoring_absent(c, type, name, k, v) ==
    IF ~Ok(c) THEN c
    ELSE LET d == dj(c)
         IN  IF dock_json_has_plugin_conf(Pipe(d), type, name)
             THEN SetPipe(d, set_arg(Pipe(d), type, name, k, v))
             ELSE d

\* self.dj.dock_json_set_arg(...)
dock_json_set_arg(c, type, name, k, v) ==
    IF ~Ok(c) THEN c
    ELSE LET d == dj(c)
         IN  IF dock_json_has_plugin_conf(Pipe(d), type, name)
             THEN SetPipe(d, set_arg(Pipe(d), type, name, k, v))
             ELSE Raise(d, "StageNotFoundError")

\* self.dj.dock_json_merge_arg(...)
dock_json_merge_arg(c, type, name, k, partial) ==
    IF ~Ok(c) THEN c
    ELSE LET d == dj(c)
         IN  IF dock_json_has_plugin_conf(Pipe(d), type, name)
             THEN SetPipe(d, merge_arg(Pipe(d), type, name, k, partial))
             ELSE Raise(d, "StageNotFoundError")

\* self.dj.remove_plugin(...)
remove_plugin(c, type, name) ==
    IF ~Ok(c) THEN c
    ELSE LET d == dj(c) IN SetPipe(d, remove_from(Pipe(d), type, name))

\* self.dj.write_dock_json()
write_dock_json(c) ==
    IF ~Ok(c) THEN c
    ELSE LET d == dj(c)
         IN  SetTpl(d, [Tpl(d) EXCEPT !.DOCK_PLUGINS = json_dumps(Pipe(d))])

\* set_arg_exit_or_postbuild trying the legacy location first.
set_arg_postbuild_or_exit(c, name, k, v) ==
    IF ~Ok(c) THEN c
    ELSE LET e == dock_json_set_arg(c, "postbuild_plugins", name, k, v)
         IN  IF e.err = "StageNotFoundError"
             THEN dock_json_set_arg([e EXCEPT !.err = "none"],
                                    "exit_plugins", name, k, v)
             ELSE e

\* try: set_arg on exit_plugins; except RuntimeError: set_arg on postbuild_plugins
set_arg_exit_or_postbuild(c, name, k, v) ==
    IF ~Ok(c) THEN c
    ELSE LET e == dock_json_set_arg(c, "exit_plugins", name, k, v)
         IN  IF e.err = "StageNotFoundError"
             THEN dock_json_set_arg([e EXCEPT !.err = "none"],
                                    "postbuild_plugins", name, k, v)
             ELSE e

----------------------------------------------------------------------------
(* CommonBuild.render, step by step.  The outer template is a record       *)
(*   metadata_name, git_uri, git_ref, output_to_name,                      *)
(*   has_triggers, triggers            spec.triggers                       *)
(*   has_secrets, secrets              spec.strategy.customStrategy.secrets*)
(*   has_sourceSecret, sourceSecret_name   spec.source.sourceSecret        *)
(*   has_resources, limits             spec.resources.limits               *)
(*   DOCK_PLUGINS                      the customStrategy env entry        *)

render_name(c, ps) ==
    IF ~Ok(c) THEN c
    ELSE LET d == template(c)
         IN  SetTpl(d, [Tpl(d) EXCEPT !.metadata_name = BuildId])

\* render_resource_limits replacing the template's limits by the overlay.
render_resource_limits_clobbering(c, limits) ==
    IF ~Ok(c) \/ limits = NoDoc THEN c
    ELSE LET d == template(c)
         IN  SetTpl(d, [Tpl(d) EXCEPT !.has_resources = TRUE, !.limits = limits[1]])

render_resource_limits(c, limits) ==
    IF ~Ok(c) \/ limits = NoDoc THEN c
    ELSE LET d   == template(c)
             old == Tpl(d).limits
             new == [x \in DOMAIN old \cup DOMAIN limits[1] |->
                        IF x \in DOMAIN limits[1] THEN limits[1][x] ELSE old[x]]
         IN  SetTpl(d, [Tpl(d) EXCEPT !.has_resources = TRUE, !.limits = new])

render_git(c, ps) ==
    IF ~Ok(c) THEN c
    ELSE LET d == template(c)
         IN  SetTpl(d, [Tpl(d) EXCEPT !.git_uri = ps["git_uri"],
                                        !.git_ref = ps["git_ref"]])

render_output(c, ps) ==
    IF ~Ok(c) THEN c
    ELSE IF ps["registry_uri"] = None \/ ImageTagOf(ps) = NoText
    THEN Raise(c, "TypeError")
    ELSE LET d == template(c)
         IN  SetTpl(d, [Tpl(d) EXCEPT !.output_to_name =
                            <<ps["registry_uri"], "/">> \o ImageTagOf(ps)])

render_trigger(c, k, ps) ==
    IF ~Ok(c) THEN c
    ELSE LET d == template(c)
         IN  IF ~Tpl(d).has_triggers THEN d
             ELSE IF "base_image" \notin Declared(k) THEN Raise(d, "AttributeError")
             ELSE IF Tpl(d).triggers = <<>> THEN Raise(d, "IndexError")
             ELSE IF Tpl(d).triggers[1].imageChange = <<>> THEN Raise(d, "KeyError")
             ELSE SetTpl(d, [Tpl(d) EXCEPT !.triggers[1].imageChange[1].name =
                                                TriggerImagestreamtagOf(ps)])

\* render_yum_repourls handing over the list in reverse.
render_yum_repourls_reversed(c, ps) ==
    IF ~Ok(c) THEN c
    ELSE IF ps["yum_repourls"].kind # "none"
            /\ has_plugin_conf(c, "prebuild_plugins", "add_yum_repo_by_url")
    THEN dock_json_set_arg(c, "prebuild_plugins", "add_yum_repo_by_url",
                           "repourls",
                           [i \in 1..Len(ps["yum_repourls"].items) |->
                               ps["yum_repourls"].items[
                                   Len(ps["yum_repourls"].items) + 1 - i]])
    ELSE IF ps["yum_repourls"].kind # "none" THEN dj(c)
    ELSE c

render_yum_repourls(c, ps) ==
    IF ~Ok(c) THEN c
    ELSE IF ps["yum_repourls"].kind # "none"
            /\ has_plugin_conf(c, "prebuild_plugins", "add_yum_repo_by_url")
    THEN dock_json_set_arg(c, "prebuild_plugins", "add_yum_repo_by_url",
                           "repourls", ps["yum_repourls"].items)
    ELSE IF ps["yum_repourls"].kind # "none" THEN dj(c)
    ELSE c

render_check_and_set_rebuild(c, ps) ==
    IF ~Ok(c) THEN c
    ELSE IF has_plugin_conf(c, "prebuild_plugins", "check_and_set_rebuild")
    THEN LET u == dock_json_set_arg(c, "prebuild_plugins", "check_and_set_rebuild",
                                    "url", ps["openshift_uri"])
         IN  IF ps["use_auth"] # None
             THEN dock_json_set_arg(u, "prebuild_plugins", "check_and_set_rebuild",
                                    "use_auth", ps["use_auth"])
             ELSE u
    ELSE dj(c)

render_use_auth(c, ps) ==
    IF ~Ok(c) \/ ps["use_auth"] = None THEN c
    ELSE set_arg_exit_or_postbuild(c, "store_metadata_in_osv3", "use_auth",
                                   ps["use_auth"])

\* render_secret_scheme with the threshold version itself taken for a legacy one.
render_secret_scheme_legacy_at_threshold(c, version) ==
    IF ~Ok(c) THEN c
    ELSE LET d == template(c)
         IN  IF ListLess(version, SecretsArrayVersion) \/ version = SecretsArrayVersion
             THEN SetTpl(d, [Tpl(d) EXCEPT !.has_secrets = FALSE, !.secrets = <<>>])
             ELSE SetTpl(d, [Tpl(d) EXCEPT !.has_sourceSecret = FALSE,
                                            !.sourceSecret_name = None])

render_secret_scheme(c, version) ==
    IF ~Ok(c) THEN c
    ELSE LET d == template(c)
         IN  IF ListLess(version, SecretsArrayVersion)
             THEN SetTpl(d, [Tpl(d) EXCEPT !.has_secrets = FALSE, !.secrets = <<>>])
             ELSE SetTpl(d, [Tpl(d) EXCEPT !.has_sourceSecret = FALSE,
                                            !.sourceSecret_name = None])

----------------------------------------------------------------------------
(* urlparse.urlsplit and urlunsplit on a URL given as its tokens: the      *)
(* delimiters ":", "//", "/", "?", "#", "@" and the text between them.     *)

UrlDelims == {":", "//", "/", "?", "#", "@"}
uses_netloc == {"ssh", "http", "https", "git", "ftp"}

FirstIndex(u, S) ==
    LET I == {i \in 1..Len(u) : u[i] \in S} IN IF I = {} THEN 0 ELSE Min(I)

Before(u, i) == IF i = 0 THEN u ELSE SubSeq(u, 1, i - 1)
After(u, i) == IF i = 0 THEN <<>> ELSE SubSeq(u, i + 1, Len(u))
From(u, i) == IF i = 0 THEN <<>> ELSE SubSeq(u, i, Len(u))

urlsplit(url) ==
    LET colon    == FirstIndex(url, {":"})
        isScheme == colon = 2 /\ url[1] \notin UrlDelims
        scheme   == IF isScheme THEN <<url[1]>> ELSE <<>>
        rest1    == IF isScheme THEN After(url, colon) ELSE url
        hasNet   == rest1 # <<>> /\ Head(rest1) = "//"
        body     == IF hasNet THEN Tail(rest1) ELSE rest1
        endNet   == FirstIndex(body, {"/", "//", "?", "#"})
        netloc   == IF hasNet THEN Before(body, endNet) ELSE <<>>
        rest2    == IF hasNet THEN From(body, endNet) ELSE rest1
        hash     == FirstIndex(rest2, {"#"})
        fragment == After(rest2, hash)
        rest3    == Before(rest2, hash)
        qmark    == FirstIndex(rest3, {"?"})
    IN  [scheme |-> scheme, netloc |-> netloc, path |-> Before(rest3, qmark),
         query |-> After(rest3, qmark), fragment |-> fragment]

urlunsplit(comps) ==
    LET path == comps.path
        u1 == IF comps.netloc # <<>>
                 \/ (comps.scheme # <<>> /\ comps.scheme[1] \in uses_netloc
                     /\ (path = <<>> \/ Head(path) # "//"))
              THEN <<"//">> \o comps.netloc
                     \o (IF path # <<>> /\ Head(path) \notin {"/", "//"}
                         THEN <<"/">> \o path ELSE path)
              ELSE path
        u2 == IF comps.scheme # <<>> THEN comps.scheme \o <<":">> \o u1 ELSE u1
        u3 == IF comps.query # <<>> THEN u2 \o <<"?">> \o comps.query ELSE u2
    IN  IF comps.fragment # <<>> THEN u3 \o <<"#">> \o comps.fragment ELSE u3

\* push_url_with_username keeping the userinfo the URL already had.
push_url_with_username_kept(push_url, username) ==
    LET components == urlsplit(push_url)
    IN  urlunsplit([components EXCEPT !.netloc = <<username, "@">> \o @])

\* ProductionBuild.render: "Do we need to add in a username?"
push_url_with_username(push_url, username) ==
    LET components == urlsplit(push_url)
        netloc     == After(components.netloc, FirstIndex(components.netloc, {"@"}))
        bare       == IF FirstIndex(components.netloc, {"@"}) = 0
                      THEN components.netloc ELSE netloc
    IN  urlunsplit([components EXCEPT !.netloc = <<username, "@">> \o bare])

----------------------------------------------------------------------------
(* ProductionBuild *)

\* One iteration of set_secrets' loop over secrets.items().
set_one_secret(c, entry) ==
    IF ~Ok(c) \/ entry.secret = None THEN c
    ELSE LET d == template(c)
         IN  IF Tpl(d).has_secrets
             THEN LET secret_path == <<SECRETS_PATH, "/", entry.secret>>
                      t == [Tpl(d) EXCEPT !.secrets = Append(@,
                               [name |-> entry.secret, mountPath |-> secret_path])]
                  IN  dock_json_set_arg(SetTpl(d, t), entry.plugin[1],
                                        entry.plugin[2], entry.plugin[3], secret_path)
             ELSE IF ~Tpl(d).has_sourceSecret
             THEN Raise(d, "ValidationError")
             ELSE SetTpl(d, [Tpl(d) EXCEPT !.sourceSecret_name = entry.secret])

RECURSIVE set_each_secret(_, _)
set_each_secret(c, secrets) ==
    IF secrets = <<>> THEN c
    ELSE set_each_secret(set_one_secret(c, Head(secrets)), Tail(secrets))

\* set_secrets leaving the template's secret substructures in place when no
\* secret was set.
set_secrets_keeping_stale(c, secrets) ==
    IF ~Ok(c) THEN c ELSE set_each_secret(c, secrets)

\* ProductionBuild.set_secrets; secrets is the mapping in its iteration order.
set_secrets(c, secrets) ==
    IF ~Ok(c) THEN c
    ELSE LET d == set_each_secret(c, secrets)
             secret_set == \E i \in 1..Len(secrets) : secrets[i].secret # None
         IN  IF ~Ok(d) \/ secret_set THEN d
             ELSE LET e == template(d)
                  IN  SetTpl(e, [Tpl(e) EXCEPT !.has_sourceSecret = FALSE,
                                                !.sourceSecret_name = None,
                                                !.has_secrets = FALSE,
                                                !.secrets = <<>>])

\* The mapping render hands to set_secrets.
SecretsOf(ps) ==
    <<[plugin |-> <<"postbuild_plugins", "pulp_push", "pulp_secret_path">>,
       secret |-> ps["pulp_secret"]],
      [plugin |-> <<"exit_plugins", "sendmail", "pdc_secret_path">>,
       secret |-> ps["pdc_secret"]]>>

\* The orders a dict of two keys can be iterated in.
Reversed(s) == [i \in 1..Len(s) |-> s[Len(s) + 1 - i]]
DictOrders(s) == {s, Reversed(s)}

render_sources(c, ps) ==
    dock_json_set_arg(
        dock_json_set_arg(c, "prebuild_plugins", "distgit_fetch_artefacts",
                          "command", ps["sources_command"]),
        "prebuild_plugins", "pull_base_image", "parent_registry",
        ps["registry_uri"])

render_labels(c, ps) ==
    dock_json_merge_arg(c, "prebuild_plugins", "add_labels_in_dockerfile", "labels",
        [l \in {"Architecture", "Vendor", "Build_Host", "Authoritative_Registry"} |->
            CASE l = "Architecture" -> ps["architecture"]
              [] l = "Vendor" -> ps["vendor"]
              [] l = "Build_Host" -> ps["build_host"]
              [] OTHER -> ps["authoritative_registry"]])

render_metadata_url(c, ps) ==
    set_arg_exit_or_postbuild(c, "store_metadata_in_osv3", "url",
                              ps["openshift_uri"])

\* render_no_triggers removing the trigger-driven stages whatever the
\* template's triggers are.
render_no_triggers_always(c) ==
    IF ~Ok(c) THEN c
    ELSE remove_plugin(
           remove_plugin(
             remove_plugin(c, "prebuild_plugins", "check_and_set_rebuild"),
             "prebuild_plugins", "bump_release"),
           "postbuild_plugins", "import_image")

render_no_triggers(c) ==
    IF ~Ok(c) THEN c
    ELSE LET d == template(c)
         IN  IF ~Tpl(d).has_triggers \/ Len(Tpl(d).triggers) = 0
             THEN remove_plugin(
                    remove_plugin(
                      remove_plugin(d, "prebuild_plugins", "check_and_set_rebuild"),
                      "prebuild_plugins", "bump_release"),
                    "postbuild_plugins", "import_image")
             ELSE d

\* render_koji without the yum-repo test.
render_koji_despite_yum(c, ps) ==
    IF ~Ok(c) THEN c
    ELSE IF ~(Truthy(ps["koji_target"]) /\ Truthy(ps["kojiroot"])
              /\ Truthy(ps["kojihub"]))
    THEN remove_plugin(c, "prebuild_plugins", "koji")
    ELSE dock_json_set_arg(
           dock_json_set_arg(
             dock_json_set_arg(c, "prebuild_plugins", "koji", "target",
                               ps["koji_target"]),
             "prebuild_plugins", "koji", "root", ps["kojiroot"]),
           "prebuild_plugins", "koji", "hub", ps["kojihub"])

render_koji(c, ps) ==
    IF ~Ok(c) THEN c
    ELSE IF ps["yum_repourls"].items # <<>>
    THEN remove_plugin(c, "prebuild_plugins", "koji")
    ELSE IF ~(Truthy(ps["koji_target"]) /\ Truthy(ps["kojiroot"])
              /\ Truthy(ps["kojihub"]))
    THEN remove_plugin(c, "prebuild_plugins", "koji")
    ELSE dock_json_set_arg(
           dock_json_set_arg(
             dock_json_set_arg(c, "prebuild_plugins", "koji", "target",
                               ps["koji_target"]),
             "prebuild_plugins", "koji", "root", ps["kojiroot"]),
           "prebuild_plugins", "koji", "hub", ps["kojihub"])

\* render_bump_release handing the branch to the stage and leaving the
\* commit in the document.
render_bump_release_swapped(c, ps) ==
    IF ~Ok(c) THEN c
    ELSE IF ~has_plugin_conf(c, "prebuild_plugins", "bump_release") THEN dj(c)
    ELSE LET push_url == IF ps["git_push_username"] # None
                         THEN push_url_with_username(ps["git_push_url"],
                                                     ps["git_push_username"])
                         ELSE ps["git_push_url"]
             c1 == IF ps["git_push_url"] # NoText
                   THEN dock_json_set_arg(c, "prebuild_plugins", "bump_release",
                                          "push_url", push_url)
                   ELSE dj(c)
         IN  dock_json_set_arg(c1, "prebuild_plugins", "bump_release", "git_ref",
                               ps["git_branch"])

render_bump_release(c, ps) ==
    IF ~Ok(c) THEN c
    ELSE IF ~has_plugin_conf(c, "prebuild_plugins", "bump_release") THEN dj(c)
    ELSE LET push_url == IF ps["git_push_username"] # None
                         THEN push_url_with_username(ps["git_push_url"],
                                                     ps["git_push_username"])
                         ELSE ps["git_push_url"]
             c1 == IF ps["git_push_url"] # NoText
                   THEN dock_json_set_arg(c, "prebuild_plugins", "bump_release",
                                          "push_url", push_url)
                   ELSE dj(c)
             c2 == SetTpl(c1, [Tpl(c1) EXCEPT !.git_ref = ps["git_branch"]])
         IN  dock_json_set_arg(c2, "prebuild_plugins", "bump_release", "git_ref",
                               ps["git_ref"])

\* render_output_pulp never overriding the output name.
render_output_pulp_never(c, ps) == c

render_output_pulp(c, ps) ==
    IF ~Ok(c) \/ ~Truthy(ps["pulp_secret"]) THEN c
    ELSE LET d == template(c)
         IN  SetTpl(d, [Tpl(d) EXCEPT !.output_to_name = ImageTagOf(ps)])

\* render_nfs keeping the stage, unconfigured, when no NFS path is given.
render_nfs_kept(c, ps) ==
    IF ~Ok(c) THEN c
    ELSE IF Truthy(ps["nfs_server_path"])
    THEN dock_json_set_arg(
           dock_json_set_arg(c, "postbuild_plugins", "cp_built_image_to_nfs",
                             "nfs_server_path", ps["nfs_server_path"]),
           "postbuild_plugins", "cp_built_image_to_nfs", "nfs_dest_dir",
           ps["nfs_dest_dir"])
    ELSE dj(c)

render_nfs(c, ps) ==
    IF ~Ok(c) THEN c
    ELSE IF Truthy(ps["nfs_server_path"])
    THEN dock_json_set_arg(
           dock_json_set_arg(c, "postbuild_plugins", "cp_built_image_to_nfs",
                             "nfs_server_path", ps["nfs_server_path"]),
           "postbuild_plugins", "cp_built_image_to_nfs", "nfs_dest_dir",
           ps["nfs_dest_dir"])
    ELSE remove_plugin(c, "postbuild_plugins", "cp_built_image_to_nfs")

\* render_pulp without the auth verification.
render_pulp_unverified(c, ps) ==
    IF ~Ok(c) THEN c
    ELSE IF Truthy(ps["pulp_registry"])
    THEN dock_json_set_arg(c, "postbuild_plugins", "pulp_push",
                           "pulp_registry_name", ps["pulp_registry"])
    ELSE remove_plugin(c, "postbuild_plugins", "pulp_push")

render_pulp(c, ps) ==
    IF ~Ok(c) THEN c
    ELSE IF Truthy(ps["pulp_registry"])
    THEN LET d == dock_json_set_arg(c, "postbuild_plugins", "pulp_push",
                                    "pulp_registry_name", ps["pulp_registry"])
         IN  IF Ok(d) /\ ps["pulp_secret"] = None
                /\ ~HasArg(Pipe(d), "postbuild_plugins", "pulp_push", "username")
             THEN Raise(d, "ValidationError")
             ELSE d
    ELSE remove_plugin(c, "postbuild_plugins", "pulp_push")

render_import_image(c, ps) ==
    IF ~Ok(c) THEN c
    ELSE IF ~has_plugin_conf(c, "postbuild_plugins", "import_image") THEN dj(c)
    ELSE LET c1 == dock_json_set_arg(c, "postbuild_plugins", "import_image",
                                     "imagestream", ImagestreamNameOf(ps))
             c2 == dock_json_set_arg(c1, "postbuild_plugins", "import_image",
                                     "docker_image_repo", ImagestreamUrlOf(ps))
             c3 == dock_json_set_arg(c2, "postbuild_plugins", "import_image",
                                     "url", ps["openshift_uri"])
         IN  IF ps["use_auth"] # None
             THEN dock_json_set_arg(c3, "postbuild_plugins", "import_image",
                                    "use_auth", ps["use_auth"])
             ELSE c3

\* The statements of the three render methods, in the order they run.
CommonSteps ==
    <<"name", "resource_limits", "git", "output", "trigger", "yum_repourls",
      "check_and_set_rebuild", "use_auth", "secret_scheme">>

\* ProductionBuild.render serializing the pipeline before the pulp, NFS and
\* import_image stages are configured.
ProductionSteps_serialize_early ==
    CommonSteps \o
    <<"sources", "labels", "metadata_url", "no_triggers", "koji", "bump_release",
      "set_secrets", "output_pulp", "write_dock_json", "nfs", "pulp",
      "import_image">>

ProductionSteps ==
    CommonSteps \o
    <<"sources", "labels", "metadata_url", "no_triggers", "koji", "bump_release",
      "set_secrets", "output_pulp", "nfs", "pulp", "import_image",
      "write_dock_json">>

SimpleSteps == CommonSteps \o <<"metadata_url", "write_dock_json">>

\* e holds what the statements read: k (the variant), ps (the parameter
\* values), limits, version, and secrets (SecretsOf(ps) in iteration order).
Step(step, c, e) ==
    CASE step = "name"                  -> render_name(c, e.ps)
      [] step = "resource_limits"       -> render_resource_limits(c, e.limits)
      [] step = "git"                   -> render_git(c, e.ps)
      [] step = "output"                -> render_output(c, e.ps)
      [] step = "trigger"               -> render_trigger(c, e.k, e.ps)
      [] step = "yum_repourls"          -> render_yum_repourls(c, e.ps)
      [] step = "check_and_set_rebuild" -> render_check_and_set_rebuild(c, e.ps)
      [] step = "use_auth"              -> render_use_auth(c, e.ps)
      [] step = "secret_scheme"         -> render_secret_scheme(c, e.version)
      [] step = "sources"               -> render_sources(c, e.ps)
      [] step = "labels"                -> render_labels(c, e.ps)
      [] step = "metadata_url"          -> render_metadata_url(c, e.ps)
      [] step = "no_triggers"           -> render_no_triggers(c)
      [] step = "koji"                  -> render_koji(c, e.ps)
      [] step = "bump_release"          -> render_bump_release(c, e.ps)
      [] step = "set_secrets"           -> set_secrets(c, e.secrets)
      [] step = "output_pulp"           -> render_output_pulp(c, e.ps)
      [] step = "nfs"                   -> render_nfs(c, e.ps)
      [] step = "pulp"                  -> render_pulp(c, e.ps)
      [] step = "import_image"          -> render_import_image(c, e.ps)
      [] step = "write_dock_json"       -> write_dock_json(c)

RECURSIVE RunSteps(_, _, _)
RunSteps(steps, c, e) ==
    IF steps = <<>> THEN c
    ELSE RunSteps(Tail(steps), Step(Head(steps), c, e), e)

Env(k, ps, limits, version, secrets) ==
    [k |-> k, ps |-> ps, limits |-> limits, version |-> version,
     secrets |-> secrets]

\* ProductionBuild.render validating after it has set the name.
ProductionBuild_render_validating_late(c, ps, limits, version, secrets, validate) ==
    IF validate /\ spec_validate(PROD_BUILD_TYPE, ps) # "none"
    THEN Raise(render_name(c, ps), spec_validate(PROD_BUILD_TYPE, ps))
    ELSE RunSteps(ProductionSteps, c,
                  Env(PROD_BUILD_TYPE, ps, limits, version, secrets))

\* ProductionBuild.render(validate); secrets is SecretsOf(ps) in iteration order.
ProductionBuild_render(c, ps, limits, version, secrets, validate) ==
    IF validate /\ spec_validate(PROD_BUILD_TYPE, ps) # "none"
    THEN Raise(c, spec_validate(PROD_BUILD_TYPE, ps))
    ELSE RunSteps(ProductionSteps, c,
                  Env(PROD_BUILD_TYPE, ps, limits, version, secrets))

\* SimpleBuild.render(validate)
SimpleBuild_render(c, ps, limits, version, validate) ==
    IF validate /\ spec_validate(SIMPLE_BUILD_TYPE, ps) # "none"
    THEN Raise(c, spec_validate(SIMPLE_BUILD_TYPE, ps))
    ELSE RunSteps(SimpleSteps, c,
                  Env(SIMPLE_BUILD_TYPE, ps, limits, version, <<>>))

----------------------------------------------------------------------------
(* The calls a client makes on the instance. *)

MaxRenders == 2

Outcome(op, err) == [op |-> op, err |-> err]

\* BuildRequest.__init__ and the variant's __init__, on a store holding
\* the two templates of the variant.
InitOver(Keys, Outers, Inners) ==
    /\ key \in Keys
    /\ store_outer \in Outers
    /\ store_inner \in Inners
    /\ params = EmptyParams
    /\ build_json = NoDoc
    /\ _template = NoDoc
    /\ _inner_template = NoDoc
    /\ _resource_limits = NoDoc
    /\ _openshift_required_version = DefaultRequiredVersion
    /\ renders = 0
    /\ last = Outcome("__init__", "none")

set_params(kw) ==
    /\ renders < MaxRenders
    /\ params' = IF spec_set_params(key, kw) = "none"
                 THEN StoredParams(key, kw) ELSE params
    /\ last' = Outcome("set_params", spec_set_params(key, kw))
    /\ UNCHANGED <<key, store_outer, store_inner, build_json, _template,
                   _inner_template, _resource_limits,
                   _openshift_required_version, renders>>

set_resource_limits(cpu, memory, storage) ==
    /\ renders < MaxRenders
    /\ LET old == IF _resource_limits = NoDoc THEN EmptyArgs
                  ELSE _resource_limits[1]
           l1  == IF cpu # None THEN SetKey(old, "cpu", cpu) ELSE old
           l2  == IF memory # None THEN SetKey(l1, "memory", memory) ELSE l1
           l3  == IF storage # None THEN SetKey(l2, "storage", storage) ELSE l2
       IN  _resource_limits' = Some(l3)
    /\ last' = Outcome("set_resource_limits", "none")
    /\ UNCHANGED <<key, store_outer, store_inner, params, build_json, _template,
                   _inner_template, _openshift_required_version, renders>>

\* The argument is None (<<>>) or a version.
set_openshift_required_version(openshift_required_version) ==
    /\ renders < MaxRenders
    /\ _openshift_required_version' =
           IF openshift_required_version # <<>>
           THEN openshift_required_version ELSE _openshift_required_version
    /\ last' = Outcome("set_openshift_required_version", "none")
    /\ UNCHANGED <<key, store_outer, store_inner, params, build_json, _template,
                   _inner_template, _resource_limits, renders>>

\* What a render call leaves behind; build_json is the template object itself.
Rendered(c) ==
    /\ _template' = c.template
    /\ _inner_template' = c.inner
    /\ build_json' = IF Ok(c) \/ build_json # NoDoc THEN c.template ELSE NoDoc
    /\ renders' = renders + 1
    /\ last' = Outcome("render", c.err)
    /\ UNCHANGED <<key, store_outer, store_inner, params, _resource_limits,
                   _openshift_required_version>>

render(validate) ==
    /\ renders < MaxRenders
    /\ \E secrets \in DictOrders(SecretsOf(params)) :
          Rendered(IF key = PROD_BUILD_TYPE
                   THEN ProductionBuild_render(
                            Ctx(_template, _inner_template), params,
                            _resource_limits, _openshift_required_version,
                            secrets, validate)
                   ELSE SimpleBuild_render(
                            Ctx(_template, _inner_template), params,
                            _resource_limits, _openshift_required_version,
                            validate))

\* The calls, with their arguments drawn from the given sets.
NextOver(Kwargs, Versions, Limits) ==
    \/ \E kw \in Kwargs : set_params(kw)
    \/ \E v \in Versions : set_openshift_required_version(v)
    \/ \E l \in Limits : set_resource_limits(l[1], l[2], l[3])
    \/ \E validate \in BOOLEAN : render(validate)

----------------------------------------------------------------------------
(* Template stores and call arguments the model is run over. *)

NoTriggers == <<>>
EmptyTriggers == Some(<<>>)
ImageChangeTrigger ==
    [type |-> "ImageChange",
     imageChange |-> Some([kind |-> "ImageStreamTag",
                           name |-> "{{BASE_IMAGE_STREAM}}"])]
ConfigChangeTrigger == [type |-> "ConfigChange", imageChange |-> <<>>]

\* An outer template; triggers is None or the trigger list.
OuterTemplate(triggers, has_secrets, has_sourceSecret) ==
    [metadata_name     |-> "{{NAME}}",
     git_uri           |-> "{{GIT_URI}}",
     git_ref           |-> "{{GIT_REF}}",
     output_to_name    |-> <<"{{REGISTRY_URI}}", "/", "{{OUTPUT_IMAGE_TAG}}">>,
     has_triggers      |-> triggers # <<>>,
     triggers          |-> IF triggers = <<>> THEN <<>> ELSE triggers[1],
     has_secrets       |-> has_secrets,
     secrets           |-> <<>>,
     has_sourceSecret  |-> has_sourceSecret,
     sourceSecret_name |-> IF has_sourceSecret THEN "{{SOURCE_SECRET}}" ELSE None,
     has_resources     |-> FALSE,
     limits            |-> EmptyArgs,
     DOCK_PLUGINS      |-> <<>>]

StoreMetadata == PluginWith("store_metadata_in_osv3", [url |-> "{{OPENSHIFT_URI}}"])

PrebuildPlugins ==
    <<Plugin("pull_base_image"),
      PluginWith("bump_release", [author |-> "osbs"]),
      PluginWith("add_labels_in_dockerfile", [labels |-> [Release |-> "1"]]),
      Plugin("distgit_fetch_artefacts"),
      Plugin("koji"),
      Plugin("add_yum_repo_by_url"),
      Plugin("check_and_set_rebuild")>>

PostbuildPlugins ==
    <<Plugin("cp_built_image_to_nfs"), Plugin("pulp_push"), Plugin("import_image")>>

ExitPlugins == <<Plugin("sendmail")>>

\* An inner template: the plugins named in omit are not declared, and
\* store_metadata_in_osv3 is declared where meta says.
InnerTemplate(omit, meta) ==
    LET keep(ps) == SelectSeq(ps, LAMBDA s : s.name \notin omit)
        metaExit == IF meta \in {"exit", "both"} THEN <<StoreMetadata>> ELSE <<>>
        metaPost == IF meta \in {"postbuild", "both", "no_exit_plugins"}
                    THEN <<StoreMetadata>> ELSE <<>>
    IN  IF meta = "no_exit_plugins"
        THEN [t \in {"prebuild_plugins", "postbuild_plugins"} |->
                IF t = "prebuild_plugins" THEN keep(PrebuildPlugins)
                ELSE keep(PostbuildPlugins) \o metaPost \o keep(ExitPlugins)]
        ELSE [t \in {"prebuild_plugins", "postbuild_plugins", "exit_plugins"} |->
                IF t = "prebuild_plugins" THEN keep(PrebuildPlugins)
                ELSE IF t = "postbuild_plugins" THEN keep(PostbuildPlugins) \o metaPost
                ELSE metaExit \o keep(ExitPlugins)]

SimpleKwargs ==
    [git_uri |-> "git://example.com/repo", git_ref |-> "commit1",
     user |-> "john-foo", component |-> "component",
     registry_uri |-> "registry.example.com",
     openshift_uri |-> "http://openshift/"]

ProdKwargs ==
    [git_branch |-> "branch1", base_image |-> "fedora:latest",
     name_label |-> "fedora/resultingimage", sources_command |-> "make",
     architecture |-> "x86_64", vendor |-> "Foo Vendor",
     build_host |-> "our.build.host.example.com",
     authoritative_registry |-> "registry.example.com"] @@ SimpleKwargs

Versions == {<<>>, <<1, 0, 5>>, <<1, 0, 6>>, <<1, 1>>}
OneLimit == {<<"1", None, None>>}

----------------------------------------------------------------------------
(* What the claims are stated over. *)

Max(S) == CHOOSE x \in S : \A y \in S : y <= x

RenderOk == last.op = "render" /\ last.err = "none"
IsProd == key = PROD_BUILD_TYPE

\* The document the last successful render returned, and the pipeline
\* embedded in its DOCK_PLUGINS entry.
Doc == build_json[1]
Plugins == json_loads(Doc.DOCK_PLUGINS)
HasPlugin(type, name) == dock_json_has_plugin_conf(Plugins, type, name)

VersionsBelow == {<<0, 5, 4>>, <<1, 0, 5>>}
VersionsAtOrAbove == {<<1, 0, 6>>, <<1, 1>>}

----------------------------------------------------------------------------
(* Secrets: the secret scheme chosen by the platform version. *)

KwSecrets ==
    {SimpleKwargs} \cup
    {[pulp_secret |-> s, pdc_secret |-> d, pulp_registry |-> r] @@ ProdKwargs :
        s \in {None, "pulpsecret"}, d \in {None, "pdcsecret"},
        r \in {None, "pulpreg"}}

InitSecrets ==
    InitOver({PROD_BUILD_TYPE, SIMPLE_BUILD_TYPE},
             {OuterTemplate(NoTriggers, s, ss) : s \in BOOLEAN, ss \in BOOLEAN},
             {InnerTemplate({}, "exit")})

SpecSecrets == InitSecrets /\ [][NextOver(KwSecrets, Versions, OneLimit)]_vars

\* C1: after every successful render, Simple or Production, a platform
\* version below [1,0,6] leaves no secrets array in the document and a
\* version at or above it leaves no sourceSecret, so the two are never
\* both present.
C1_SecretSchemeByVersion ==
    RenderOk =>
        /\ _openshift_required_version \in VersionsBelow => ~Doc.has_secrets
        /\ _openshift_required_version \in VersionsAtOrAbove => ~Doc.has_sourceSecret
        /\ ~(Doc.has_secrets /\ Doc.has_sourceSecret)

\* A Production render at the threshold version, of a template declaring
\* both substructures, that mounted a secret in the secrets array.
C1_Witness ==
    /\ RenderOk /\ IsProd
    /\ _openshift_required_version = SecretsArrayVersion
    /\ store_outer.has_secrets /\ store_outer.has_sourceSecret
    /\ Doc.has_secrets /\ Len(Doc.secrets) > 0

PulpMountPath == <<SECRETS_PATH, "/", params["pulp_secret"]>>

\* C2: every successful Production render with version >= [1,0,6] and a
\* pulp secret configured has exactly one secrets entry named after the
\* pulp secret, mounted at <secrets-root>/<name>, and a pulp_push stage
\* whose pulp_secret_path is that mount path.
C2_OnePulpSecretMount ==
    (RenderOk /\ IsProd /\ _openshift_required_version \in VersionsAtOrAbove
        /\ params["pulp_secret"] # None) =>
        /\ Doc.has_secrets
        /\ Cardinality({i \in 1..Len(Doc.secrets) :
                            Doc.secrets[i].name = params["pulp_secret"]}) = 1
        /\ \A i \in 1..Len(Doc.secrets) :
              Doc.secrets[i].name = params["pulp_secret"]
                  => Doc.secrets[i].mountPath = PulpMountPath
        /\ HasArg(Plugins, "postbuild_plugins", "pulp_push", "pulp_secret_path")
        /\ ArgOf(Plugins, "postbuild_plugins", "pulp_push", "pulp_secret_path")
               = PulpMountPath

\* C3: every successful Production render with version below [1,0,6] and a
\* pulp secret configured has sourceSecret.name equal to the pulp secret
\* name whatever other secrets are configured, no secrets array, and no
\* pulp_secret_path on the pulp_push stage.
C3_LegacySourceSecretIsPulp ==
    (RenderOk /\ IsProd /\ _openshift_required_version \in VersionsBelow
        /\ params["pulp_secret"] # None) =>
        /\ Doc.has_sourceSecret
        /\ Doc.sourceSecret_name = params["pulp_secret"]
        /\ ~Doc.has_secrets
        /\ ~HasArg(Plugins, "postbuild_plugins", "pulp_push", "pulp_secret_path")

----------------------------------------------------------------------------
(* Triggers and bump_release: Production renders over templates with no   *)
(* triggers key, an empty trigger list, an image-change trigger, and a    *)
(* config-change trigger first.                                           *)

PushUrlPlain == <<"ssh", ":", "//", "git.example.com", "/", "git", "/", "c.git">>
PushUrlFull ==
    <<"https", ":", "//", "old", ":", "pw", "@", "git.example.com", ":", "8443",
      "/", "git", "/", "c.git", "?", "x=1", "#", "frag">>

KwBump ==
    {[git_push_url |-> u, git_push_username |-> n] @@ ProdKwargs :
        u \in {NoText, PushUrlPlain, PushUrlFull}, n \in {None, "example"}}

InitBump ==
    InitOver({PROD_BUILD_TYPE},
             {OuterTemplate(t, FALSE, TRUE) :
                 t \in {NoTriggers, EmptyTriggers, Some(<<ImageChangeTrigger>>),
                        Some(<<ConfigChangeTrigger, ImageChangeTrigger>>)}},
             {InnerTemplate(omit, "exit") : omit \in {{}, {"bump_release"}}})

SpecBump == InitBump /\ [][NextOver(KwBump, {<<1, 0, 6>>}, OneLimit)]_vars

ZeroTriggers == ~store_outer.has_triggers \/ store_outer.triggers = <<>>
DeclaresImageChange ==
    /\ store_outer.has_triggers
    /\ \E i \in 1..Len(store_outer.triggers) :
          store_outer.triggers[i].type = "ImageChange"

TriggerStages ==
    {<<"prebuild_plugins", "check_and_set_rebuild">>,
     <<"prebuild_plugins", "bump_release">>,
     <<"postbuild_plugins", "import_image">>}

\* The pipeline as the instance holds it before a call: the loaded one, or
\* the stored template still to be loaded.
CurPipeline == IF _inner_template = NoDoc THEN store_inner ELSE _inner_template[1]
IsRenderStep == renders' = renders + 1
IsRenderOkStep == IsRenderStep /\ last'.err = "none"

\* C4: a Production render with valid parameters of a template with zero
\* build triggers, whether the triggers key is absent or holds an empty
\* list, succeeds, and the rendered pipeline has none of
\* check_and_set_rebuild, bump_release and import_image.
C4_ZeroTriggersRender ==
    (last.op = "render" /\ IsProd /\ ZeroTriggers
        /\ spec_validate(key, params) = "none") =>
        /\ last.err = "none"
        /\ \A st \in TriggerStages : ~HasPlugin(st[1], st[2])

\* C5: after a successful Production render of a template declaring an
\* image-change trigger, each of check_and_set_rebuild, bump_release and
\* import_image that the pipeline template declares is still present, and
\* the image-change trigger's imageChange.from.name is the
\* trigger_imagestreamtag parameter.
C5_ImageChangeKeepsStages ==
    (RenderOk /\ IsProd /\ DeclaresImageChange) =>
        /\ \A st \in TriggerStages :
              dock_json_has_plugin_conf(store_inner, st[1], st[2])
                  => HasPlugin(st[1], st[2])
        /\ Doc.has_triggers
        /\ \A i \in 1..Len(Doc.triggers) :
              Doc.triggers[i].type = "ImageChange"
                  => Doc.triggers[i].imageChange[1].name
                         = TriggerImagestreamtagOf(params)

\* A successful render of the image-change template that kept bump_release
\* and import_image and rewrote the trigger.
C5_Witness ==
    /\ RenderOk /\ IsProd /\ DeclaresImageChange
    /\ HasPlugin("prebuild_plugins", "bump_release")
    /\ HasPlugin("prebuild_plugins", "check_and_set_rebuild")
    /\ HasPlugin("postbuild_plugins", "import_image")
    /\ Doc.triggers[1].imageChange[1].name = "fedora:latest"

\* The URL u, split at its authority, with userinfo n@ in place of any it
\* had; u is scheme, ":", "//", authority and the rest.
WithUserinfo(u, n) ==
    LET end == Min({i \in 4..(Len(u) + 1) :
                       i = Len(u) + 1 \/ u[i] \in {"/", "?", "#"}})
        ats == {i \in 4..(end - 1) : u[i] = "@"}
        at  == IF ats = {} THEN 3 ELSE Max(ats)
    IN  SubSeq(u, 1, 3) \o <<n, "@">> \o SubSeq(u, at + 1, Len(u))

PushUrlArg(p) == ArgOf(p, "prebuild_plugins", "bump_release", "push_url")
HasPushUrlArg(p) == HasArg(p, "prebuild_plugins", "bump_release", "push_url")

C9_PushUrlSet ==
    (RenderOk /\ IsProd /\ HasPlugin("prebuild_plugins", "bump_release")
        /\ params["git_push_url"] # NoText) =>
        /\ HasPushUrlArg(Plugins)
        /\ PushUrlArg(Plugins) =
              IF params["git_push_username"] # None
              THEN WithUserinfo(params["git_push_url"], params["git_push_username"])
              ELSE params["git_push_url"]

C9_PushUrlNotSet ==
    (IsRenderOkStep /\ IsProd /\ params["git_push_url"] = NoText) =>
        /\ HasPushUrlArg(_inner_template'[1]) <=> HasPushUrlArg(CurPipeline)
        /\ HasPushUrlArg(CurPipeline) =>
              PushUrlArg(_inner_template'[1]) = PushUrlArg(CurPipeline)

\* C9: after a successful Production render with bump_release present, a
\* supplied push URL is the stage's push_url argument: with a push username
\* it is the same URL with its userinfo replaced by, or prefixed with,
\* <username>@ and every other component unchanged; without a username it
\* is passed verbatim. With no push URL supplied the render does not set
\* the argument.
C9_PushUrlRewrite == [](C9_PushUrlSet) /\ [][C9_PushUrlNotSet]_vars

\* A render that replaced the userinfo of a URL carrying userinfo, port,
\* query and fragment.
C9_Witness ==
    /\ RenderOk /\ IsProd
    /\ params["git_push_url"] = PushUrlFull
    /\ params["git_push_username"] = "example"
    /\ HasPlugin("prebuild_plugins", "bump_release")
    /\ PushUrlArg(Plugins) =
          <<"https", ":", "//", "example", "@", "git.example.com", ":", "8443",
            "/", "git", "/", "c.git", "?", "x=1", "#", "frag">>

\* C10: after a successful Production render the document's git uri is the
\* git_uri parameter; with bump_release present its git ref is git_branch
\* and the stage's git_ref argument is the original git_ref; with
\* bump_release absent its git ref is git_ref.
C10_GitRef ==
    (RenderOk /\ IsProd) =>
        /\ Doc.git_uri = params["git_uri"]
        /\ HasPlugin("prebuild_plugins", "bump_release") =>
              /\ Doc.git_ref = params["git_branch"]
              /\ HasArg(Plugins, "prebuild_plugins", "bump_release", "git_ref")
              /\ ArgOf(Plugins, "prebuild_plugins", "bump_release", "git_ref")
                     = params["git_ref"]
        /\ ~HasPlugin("prebuild_plugins", "bump_release") =>
              Doc.git_ref = params["git_ref"]

\* A render with bump_release present: the branch in the document, the
\* commit in the stage.
C10_Witness ==
    /\ RenderOk /\ IsProd
    /\ HasPlugin("prebuild_plugins", "bump_release")
    /\ Doc.git_ref = "branch1"
    /\ ArgOf(Plugins, "prebuild_plugins", "bump_release", "git_ref") = "commit1"
    /\ Doc.git_uri = "git://example.com/repo"

----------------------------------------------------------------------------
(* Package sources: yum repo URLs against koji. *)

Repo1 == "http://example.com/repo1.repo"
Repo2 == "http://example.com/repo2.repo"

KwKoji ==
    {[yum_repourls |-> y, koji_target |-> t, kojiroot |-> r, kojihub |-> h]
         @@ ProdKwargs :
        y \in {YumNone, YumList(<<>>), YumList(<<Repo1, Repo2>>), YumScalar(Repo1)},
        t \in {None, "koji-target"}, r \in {None, "http://root/"},
        h \in {"", "http://hub/"}}

InitKoji ==
    InitOver({PROD_BUILD_TYPE},
             {OuterTemplate(NoTriggers, FALSE, TRUE)},
             {InnerTemplate(omit, "exit") : omit \in {{}, {"add_yum_repo_by_url"}}})

SpecKoji == InitKoji /\ [][NextOver(KwKoji, {<<1, 0, 6>>}, OneLimit)]_vars

KojiSet ==
    /\ params["koji_target"] \notin {None, ""}
    /\ params["kojiroot"] \notin {None, ""}
    /\ params["kojihub"] \notin {None, ""}

\* C6: after a successful Production render the koji stage is present
\* exactly when no yum-repo URLs were supplied and koji_target, kojiroot
\* and kojihub are all set, and when present its target, root and hub
\* arguments equal those three parameters.
C6_KojiIffNoYumAndAllSet ==
    (RenderOk /\ IsProd) =>
        /\ HasPlugin("prebuild_plugins", "koji")
              <=> (params["yum_repourls"].items = <<>> /\ KojiSet)
        /\ HasPlugin("prebuild_plugins", "koji") =>
              /\ ArgOf(Plugins, "prebuild_plugins", "koji", "target")
                     = params["koji_target"]
              /\ ArgOf(Plugins, "prebuild_plugins", "koji", "root")
                     = params["kojiroot"]
              /\ ArgOf(Plugins, "prebuild_plugins", "koji", "hub")
                     = params["kojihub"]

\* A render that kept koji and configured it.
C6_Witness ==
    /\ RenderOk /\ IsProd
    /\ HasPlugin("prebuild_plugins", "koji")
    /\ ArgOf(Plugins, "prebuild_plugins", "koji", "target") = "koji-target"
    /\ ArgOf(Plugins, "prebuild_plugins", "koji", "root") = "http://root/"
    /\ ArgOf(Plugins, "prebuild_plugins", "koji", "hub") = "http://hub/"

C7_ScalarRejected ==
    \A kw \in KwKoji :
        (set_params(kw) /\ kw["yum_repourls"].kind = "str") =>
            /\ last'.err = "ValidationError"
            /\ params'["yum_repourls"] # YumList(kw["yum_repourls"].items)
            /\ params'["yum_repourls"] = params["yum_repourls"]

C7_ListRendered ==
    (RenderOk /\ params["yum_repourls"].kind = "list"
        /\ HasPlugin("prebuild_plugins", "add_yum_repo_by_url")) =>
        /\ HasArg(Plugins, "prebuild_plugins", "add_yum_repo_by_url", "repourls")
        /\ ArgOf(Plugins, "prebuild_plugins", "add_yum_repo_by_url", "repourls")
               = params["yum_repourls"].items

\* C7: set_params with a bare scalar for yum_repourls is rejected with a
\* ValidationError and the scalar is never stored wrapped in a list; a
\* sequence is accepted, and after a successful render of a pipeline that
\* declares add_yum_repo_by_url the stage's repourls argument is that
\* sequence exactly.
C7_YumRepourls == [][C7_ScalarRejected]_vars /\ [](C7_ListRendered)

\* A render that handed a two-URL list to the stage, in order.
C7_Witness ==
    /\ RenderOk
    /\ HasPlugin("prebuild_plugins", "add_yum_repo_by_url")
    /\ params["yum_repourls"] = YumList(<<Repo1, Repo2>>)
    /\ ArgOf(Plugins, "prebuild_plugins", "add_yum_repo_by_url", "repourls")
           = <<Repo1, Repo2>>

----------------------------------------------------------------------------
(* The metadata stage: declared in the exit phase, in the post-build       *)
(* phase, in both, in a pipeline without exit phase, or nowhere.           *)

KwMetadata ==
    {SimpleKwargs, ProdKwargs} \cup
    {[use_auth |-> a] @@ kw : a \in {"true", "false"},
                              kw \in {SimpleKwargs, ProdKwargs}}

InitMetadata ==
    InitOver({PROD_BUILD_TYPE, SIMPLE_BUILD_TYPE},
             {OuterTemplate(NoTriggers, FALSE, TRUE)},
             {InnerTemplate({}, meta) :
                 meta \in {"exit", "postbuild", "both", "no_exit_plugins", "neither"}})

SpecMetadata == InitMetadata /\ [][NextOver(KwMetadata, {<<1, 0, 6>>}, OneLimit)]_vars

MetadataStage == "store_metadata_in_osv3"
MetadataPhases == {"exit_plugins", "postbuild_plugins"}

\* Where the exit-first rule puts the metadata arguments in pipeline p.
MetadataPhase(p) ==
    IF dock_json_has_plugin_conf(p, "exit_plugins", MetadataStage)
    THEN "exit_plugins" ELSE "postbuild_plugins"

C8_Rendered ==
    RenderOk =>
        /\ dock_json_has_plugin_conf(Plugins, MetadataPhase(Plugins), MetadataStage)
        /\ HasArg(Plugins, MetadataPhase(Plugins), MetadataStage, "url")
        /\ ArgOf(Plugins, MetadataPhase(Plugins), MetadataStage, "url")
               = params["openshift_uri"]
        /\ params["use_auth"] # None =>
              /\ HasArg(Plugins, MetadataPhase(Plugins), MetadataStage, "use_auth")
              /\ ArgOf(Plugins, MetadataPhase(Plugins), MetadataStage, "use_auth")
                     = params["use_auth"]

C8_OtherPhaseUntouched ==
    IsRenderOkStep =>
        /\ MetadataPhase(_inner_template'[1]) = MetadataPhase(CurPipeline)
        /\ \A ph \in MetadataPhases \ {MetadataPhase(CurPipeline)} :
              dock_json_has_plugin_conf(CurPipeline, ph, MetadataStage) =>
                  dock_json_get_plugin_conf(_inner_template'[1], ph, MetadataStage)
                      = dock_json_get_plugin_conf(CurPipeline, ph, MetadataStage)

\* C8: a successful render, Simple or Production, sets the metadata
\* stage's url to the openshift_uri parameter, and its use_auth to the
\* use_auth parameter when one was supplied, on the exit-phase
\* store_metadata_in_osv3 if the pipeline declares one and otherwise on the
\* post-build one; the stage at the other phase, if any, is left as it was.
C8_MetadataExitFirst == [](C8_Rendered) /\ [][C8_OtherPhaseUntouched]_vars

\* A render that fell back to the post-build stage of a pipeline declaring
\* no exit-phase one.
C8_Witness ==
    /\ RenderOk
    /\ ~HasPlugin("exit_plugins", MetadataStage)
    /\ HasPlugin("postbuild_plugins", MetadataStage)
    /\ params["use_auth"] = "true"
    /\ ArgOf(Plugins, "postbuild_plugins", MetadataStage, "url") = "http://openshift/"
    /\ ArgOf(Plugins, "postbuild_plugins", MetadataStage, "use_auth") = "true"

----------------------------------------------------------------------------
(* Pulp, output name and NFS: pipelines whose pulp_push stage carries no   *)
(* credentials, a username, a password, or both.                           *)

\* Pipeline p with its declaration of the plugin replaced by entry.
WithPluginEntry(p, type, entry) ==
    [p EXCEPT ![type][plugin_index(p, type, entry.name)] = entry]

PulpPushEntries ==
    {Plugin("pulp_push"),
     PluginWith("pulp_push", [username |-> "pulpuser"]),
     PluginWith("pulp_push", [password |-> "pulppass"]),
     PluginWith("pulp_push", [username |-> "pulpuser", password |-> "pulppass"])}

KwPulp ==
    {SimpleKwargs} \cup
    {[pulp_registry |-> r, pulp_secret |-> s, nfs_server_path |-> n,
      nfs_dest_dir |-> d] @@ ProdKwargs :
        r \in {None, "foo"}, s \in {None, "pulpsecret"},
        n \in {None, "nfs.example.com:/exports"}, d \in {None, "dest"}}

InitPulp ==
    InitOver({PROD_BUILD_TYPE, SIMPLE_BUILD_TYPE},
             {OuterTemplate(NoTriggers, TRUE, TRUE)},
             {WithPluginEntry(InnerTemplate({}, "exit"), "postbuild_plugins", e) :
                 e \in PulpPushEntries})

SpecPulp == InitPulp /\ [][NextOver(KwPulp, {<<1, 0, 6>>}, OneLimit)]_vars

C11_PulpStage ==
    (RenderOk /\ IsProd) =>
        IF params["pulp_registry"] \notin {None, ""}
        THEN /\ HasArg(Plugins, "postbuild_plugins", "pulp_push", "pulp_registry_name")
             /\ ArgOf(Plugins, "postbuild_plugins", "pulp_push", "pulp_registry_name")
                    = params["pulp_registry"]
        ELSE ~HasPlugin("postbuild_plugins", "pulp_push")

C11_NoAuthFails ==
    (/\ IsRenderStep /\ IsProd
     /\ params["pulp_registry"] \notin {None, ""}
     /\ params["pulp_secret"] = None
     /\ dock_json_has_plugin_conf(CurPipeline, "postbuild_plugins", "pulp_push")
     /\ ~HasArg(CurPipeline, "postbuild_plugins", "pulp_push", "username")
     /\ ~HasArg(CurPipeline, "postbuild_plugins", "pulp_push", "password")) =>
        /\ last'.err # "none"
        /\ _inner_template = NoDoc =>
              last'.err = "ValidationError" /\ build_json' = NoDoc

\* C11: a successful Production render with a pulp registry name has a
\* pulp_push stage whose pulp_registry_name is that name, and one without
\* a registry name has no pulp_push stage; a render with a registry name,
\* no pulp secret and a pulp_push stage carrying neither username nor
\* password fails and returns no document, with ValidationError when the
\* pipeline is as the template declares it (on a pipeline an earlier render
\* of the instance stripped, a missing stage fails the render first).
C11_PulpRegistryAuth == [](C11_PulpStage) /\ [][C11_NoAuthFails]_vars

\* A render refused with ValidationError for a registry name without any
\* auth, on a pipeline declaring pulp_push bare.
C11_Witness ==
    /\ last = Outcome("render", "ValidationError") /\ IsProd
    /\ params["pulp_registry"] = "foo" /\ params["pulp_secret"] = None
    /\ spec_validate(key, params) = "none"
    /\ store_inner = WithPluginEntry(InnerTemplate({}, "exit"), "postbuild_plugins",
                                     Plugin("pulp_push"))
    /\ ArgOf(_inner_template[1], "postbuild_plugins", "pulp_push",
             "pulp_registry_name") = "foo"
    /\ build_json = NoDoc

\* C12: after a successful render, spec.output.to.name is
\* <registry>/<image_tag> for a Simple build and for a Production build
\* without pulp secret, and the bare image tag for a Production build with
\* a pulp secret.
C12_OutputName ==
    RenderOk =>
        Doc.output_to_name =
            IF IsProd /\ params["pulp_secret"] \notin {None, ""}
            THEN ImageTagOf(params)
            ELSE <<params["registry_uri"], "/">> \o ImageTagOf(params)

\* A Production render with a pulp secret: the bare tag.
C12_Witness ==
    /\ RenderOk /\ IsProd
    /\ params["pulp_secret"] = "pulpsecret"
    /\ Doc.output_to_name = <<"john-foo", "/", "component", ":", "tag">>

\* C13: in a successfully rendered Production pipeline cp_built_image_to_nfs
\* is present exactly when an NFS server path was supplied, and then its
\* nfs_server_path and nfs_dest_dir arguments are the supplied parameters.
C13_NfsStage ==
    (RenderOk /\ IsProd) =>
        /\ HasPlugin("postbuild_plugins", "cp_built_image_to_nfs")
              <=> params["nfs_server_path"] \notin {None, ""}
        /\ HasPlugin("postbuild_plugins", "cp_built_image_to_nfs") =>
              /\ ArgOf(Plugins, "postbuild_plugins", "cp_built_image_to_nfs",
                       "nfs_server_path") = params["nfs_server_path"]
              /\ ArgOf(Plugins, "postbuild_plugins", "cp_built_image_to_nfs",
                       "nfs_dest_dir") = params["nfs_dest_dir"]

\* A render that kept and configured the NFS stage.
C13_Witness ==
    /\ RenderOk /\ IsProd
    /\ HasPlugin("postbuild_plugins", "cp_built_image_to_nfs")
    /\ ArgOf(Plugins, "postbuild_plugins", "cp_built_image_to_nfs",
             "nfs_server_path") = "nfs.example.com:/exports"
    /\ ArgOf(Plugins, "postbuild_plugins", "cp_built_image_to_nfs",
             "nfs_dest_dir") = "dest"

----------------------------------------------------------------------------
(* The process around one instance: the factory handing out a new          *)
(* instance, and the calls that only look at the instance.                 *)

PROD_WITHOUT_KOJI_BUILD_TYPE == "prod-without-koji"
PROD_WITH_SECRET_BUILD_TYPE == "prod-with-secret"

\* The registry register_build_class fills: key -> the class of that key.
build_classes ==
    [k \in {PROD_BUILD_TYPE, SIMPLE_BUILD_TYPE} |->
        IF k = PROD_BUILD_TYPE THEN "ProductionBuild" ELSE "SimpleBuild"]

\* new_by_type keeping the prod-with-secret alias as it is.
canonical_name_without_secret_alias(build_name) ==
    IF build_name = PROD_WITHOUT_KOJI_BUILD_TYPE THEN PROD_BUILD_TYPE ELSE build_name

\* new_by_type: "Compatibility"
canonical_name(build_name) ==
    IF build_name \in {PROD_WITHOUT_KOJI_BUILD_TYPE, PROD_WITH_SECRET_BUILD_TYPE}
    THEN PROD_BUILD_TYPE ELSE build_name

\* The parameter values the spec object of a new instance shows: those the
\* process set before, through whatever instance.
SpecOfNewInstance(ps) == ps

\* BuildRequest.new_by_type, as BuildManager.get_build_request_by_type
\* calls it; the client goes on with the instance it returns, and keeps
\* the one it had when the call raises.
new_by_type(build_name) ==
    /\ renders < MaxRenders
    /\ IF canonical_name(build_name) \in DOMAIN build_classes
       THEN /\ key' = canonical_name(build_name)
            /\ params' = SpecOfNewInstance(params)
            /\ build_json' = NoDoc
            /\ _template' = NoDoc
            /\ _inner_template' = NoDoc
            /\ _resource_limits' = NoDoc
            /\ _openshift_required_version' = DefaultRequiredVersion
            /\ last' = [op |-> "new_by_type", err |-> "none",
                        build_name |-> build_name,
                        class |-> build_classes[canonical_name(build_name)]]
       ELSE /\ last' = [op |-> "new_by_type", err |-> "RuntimeError",
                        build_name |-> build_name, class |-> None]
            /\ UNCHANGED <<key, params, build_json, _template, _inner_template,
                           _resource_limits, _openshift_required_version>>
    /\ UNCHANGED <<store_outer, store_inner, renders>>

\* is_auto_instantiated scanning only the first trigger.
auto_instantiated_first_only(triggers) ==
    /\ triggers # <<>>
    /\ triggers[1].type = "ImageChange"
    /\ triggers[1].imageChange[1].kind = "ImageStreamTag"

\* The loop of is_auto_instantiated over the trigger list.
RECURSIVE auto_instantiated(_)
auto_instantiated(triggers) ==
    IF triggers = <<>> THEN FALSE
    ELSE IF Head(triggers).type = "ImageChange"
            /\ Head(triggers).imageChange[1].kind = "ImageStreamTag"
    THEN TRUE
    ELSE auto_instantiated(Tail(triggers))

\* BuildRequest.is_auto_instantiated; reading self.template loads it.
is_auto_instantiated ==
    /\ renders < MaxRenders
    /\ LET c == template(Ctx(_template, _inner_template))
       IN  /\ _template' = c.template
           /\ last' = [op |-> "is_auto_instantiated", err |-> "none",
                       result |-> auto_instantiated(
                                      IF Tpl(c).has_triggers
                                      THEN Tpl(c).triggers ELSE <<>>)]
    /\ UNCHANGED <<key, store_outer, store_inner, params, build_json,
                   _inner_template, _resource_limits,
                   _openshift_required_version, renders>>

\* CommonBuild.validate_input
validate_input ==
    /\ renders < MaxRenders
    /\ last' = Outcome("validate_input", spec_validate(key, params))
    /\ UNCHANGED <<key, store_outer, store_inner, params, build_json, _template,
                   _inner_template, _resource_limits,
                   _openshift_required_version, renders>>

NextProcess(Kwargs, RequiredVersions, Limits, Names) ==
    \/ NextOver(Kwargs, RequiredVersions, Limits)
    \/ \E build_name \in Names : new_by_type(build_name)
    \/ is_auto_instantiated
    \/ validate_input

----------------------------------------------------------------------------
(* The factory and the trigger query, over templates whose trigger list   *)
(* is absent, empty, or holds image-change and other triggers.            *)

DockerImageTrigger ==
    [type |-> "ImageChange",
     imageChange |-> Some([kind |-> "DockerImage", name |-> "fedora"])]

TriggerLists ==
    {NoTriggers, EmptyTriggers, Some(<<ImageChangeTrigger>>),
     Some(<<ConfigChangeTrigger>>), Some(<<DockerImageTrigger>>),
     Some(<<ConfigChangeTrigger, ImageChangeTrigger>>),
     Some(<<DockerImageTrigger, ImageChangeTrigger>>)}

BuildNames ==
    {PROD_BUILD_TYPE, SIMPLE_BUILD_TYPE, PROD_WITHOUT_KOJI_BUILD_TYPE,
     PROD_WITH_SECRET_BUILD_TYPE, "prod-with-koji", None}

InitFactory ==
    InitOver({PROD_BUILD_TYPE, SIMPLE_BUILD_TYPE},
             {OuterTemplate(t, FALSE, TRUE) : t \in TriggerLists},
             {InnerTemplate({}, "exit")})

SpecFactory ==
    InitFactory /\ [][NextProcess({SimpleKwargs, ProdKwargs}, {<<1, 0, 6>>},
                                  OneLimit, BuildNames)]_vars

\* C14: the factory returns a ProductionBuild for prod and for each of the
\* deprecated keys prod-without-koji and prod-with-secret, a SimpleBuild
\* for simple, each a newly constructed instance; for any other key it
\* fails with RuntimeError and hands out no instance.
C14_Factory ==
    last.op = "new_by_type" =>
        /\ last.build_name \in {PROD_BUILD_TYPE, PROD_WITHOUT_KOJI_BUILD_TYPE,
                                PROD_WITH_SECRET_BUILD_TYPE} =>
              /\ last.err = "none" /\ last.class = "ProductionBuild"
              /\ key = PROD_BUILD_TYPE
        /\ last.build_name = SIMPLE_BUILD_TYPE =>
              /\ last.err = "none" /\ last.class = "SimpleBuild"
              /\ key = SIMPLE_BUILD_TYPE
        /\ last.err = "none" =>
              /\ build_json = NoDoc /\ _template = NoDoc /\ _inner_template = NoDoc
              /\ _resource_limits = NoDoc
              /\ _openshift_required_version = DefaultRequiredVersion
        /\ last.build_name \notin {PROD_BUILD_TYPE, SIMPLE_BUILD_TYPE,
                                   PROD_WITHOUT_KOJI_BUILD_TYPE,
                                   PROD_WITH_SECRET_BUILD_TYPE} =>
              /\ last.err = "RuntimeError" /\ last.class = None

\* The factory asked for prod-with-secret: a ProductionBuild.
C14_Witness ==
    /\ last.op = "new_by_type"
    /\ last.build_name = PROD_WITH_SECRET_BUILD_TYPE
    /\ last.err = "none" /\ last.class = "ProductionBuild"
    /\ key = PROD_BUILD_TYPE

\* The trigger list of the template the instance holds.
LoadedTriggers ==
    IF _template[1].has_triggers THEN _template[1].triggers ELSE <<>>

C15_Result ==
    last.op = "is_auto_instantiated" =>
        (last.result <=>
            \E i \in 1..Len(LoadedTriggers) :
                /\ LoadedTriggers[i].type = "ImageChange"
                /\ LoadedTriggers[i].imageChange[1].kind = "ImageStreamTag")

C15_TemplateUnmodified ==
    last'.op = "is_auto_instantiated" =>
        _template' = Some(IF _template = NoDoc THEN store_outer ELSE _template[1])

\* C15: is_auto_instantiated returns true exactly when the trigger list of
\* the loaded outer template holds a trigger of type ImageChange whose
\* imageChange.from.kind is ImageStreamTag, false for an absent or empty
\* list, and the call leaves the template as it was.
C15_IsAutoInstantiated == [](C15_Result) /\ [][C15_TemplateUnmodified]_vars

\* True for a template whose matching trigger is not the first one.
C15_Witness ==
    /\ last.op = "is_auto_instantiated"
    /\ last.result
    /\ Len(LoadedTriggers) = 2
    /\ LoadedTriggers[1].type = "ConfigChange"

----------------------------------------------------------------------------
(* Resource limits: templates declaring no resources, or cpu and memory   *)
(* limits, under overlays set call by call.                               *)

WithLimits(t, limits) == [t EXCEPT !.has_resources = TRUE, !.limits = limits]

LimitCalls ==
    {<<"1", None, None>>, <<"2", None, None>>, <<None, "2Gi", None>>,
     <<None, None, "3Gi">>, <<"4", "4Gi", "4Gi">>, <<None, None, None>>}

InitLimits ==
    InitOver({PROD_BUILD_TYPE, SIMPLE_BUILD_TYPE},
             {OuterTemplate(NoTriggers, FALSE, TRUE),
              WithLimits(OuterTemplate(NoTriggers, FALSE, TRUE),
                         [cpu |-> "500m", memory |-> "1Gi"])},
             {InnerTemplate({}, "exit")})

SpecLimits ==
    InitLimits /\ [][NextOver({SimpleKwargs, ProdKwargs}, {<<1, 0, 6>>},
                              LimitCalls)]_vars

LimitNames == <<"cpu", "memory", "storage">>

\* The overlay stored so far, as a mapping (empty before the first call).
Overlay == IF _resource_limits = NoDoc THEN EmptyArgs ELSE _resource_limits[1]

\* A set_resource_limits call stores each non-null argument and keeps what
\* was stored for the others.
C16_MostRecentStored ==
    \A l \in LimitCalls :
        set_resource_limits(l[1], l[2], l[3]) =>
            /\ _resource_limits' # NoDoc
            /\ \A i \in 1..3 :
                  IF l[i] # None
                  THEN /\ LimitNames[i] \in DOMAIN _resource_limits'[1]
                       /\ _resource_limits'[1][LimitNames[i]] = l[i]
                  ELSE /\ LimitNames[i] \in DOMAIN _resource_limits'[1]
                              <=> LimitNames[i] \in DOMAIN Overlay
                       /\ LimitNames[i] \in DOMAIN Overlay =>
                              _resource_limits'[1][LimitNames[i]]
                                  = Overlay[LimitNames[i]]

\* A successful render leaves in spec.resources.limits the stored value of
\* every limit a call specified and the template's value of every other
\* limit; without any call it leaves spec.resources as the template has it.
C16_Merged ==
    RenderOk =>
        /\ \A k \in DOMAIN Overlay :
              k \in DOMAIN Doc.limits /\ Doc.limits[k] = Overlay[k]
        /\ \A k \in DOMAIN store_outer.limits \ DOMAIN Overlay :
              k \in DOMAIN Doc.limits /\ Doc.limits[k] = store_outer.limits[k]
        /\ DOMAIN Doc.limits = DOMAIN Overlay \cup DOMAIN store_outer.limits
        /\ _resource_limits = NoDoc =>
              /\ Doc.has_resources = store_outer.has_resources
              /\ Doc.limits = store_outer.limits

\* C16: after any sequence of set_resource_limits calls and a successful
\* render, spec.resources.limits holds for each of cpu, memory and storage
\* the most recent non-null value passed, every limit the template
\* declared and no call specified keeps its template value, and when
\* set_resource_limits was never called spec.resources is unchanged.
C16_ResourceLimits == [][C16_MostRecentStored]_vars /\ [](C16_Merged)

\* cpu set twice and storage once over a template declaring cpu and memory.
C16_Witness ==
    /\ RenderOk
    /\ store_outer.limits = [cpu |-> "500m", memory |-> "1Gi"]
    /\ Overlay = [cpu |-> "2", storage |-> "3Gi"]
    /\ Doc.limits = [cpu |-> "2", memory |-> "1Gi", storage |-> "3Gi"]

----------------------------------------------------------------------------
(* Parameters: mappings with undeclared names, mappings lacking required  *)
(* names, validation on demand, and new instances in a running process.   *)

Without(kw, n) == [x \in DOMAIN kw \ {n} |-> kw[x]]

KwParams ==
    {SimpleKwargs, ProdKwargs,
     Without(SimpleKwargs, "user"), Without(ProdKwargs, "vendor"),
     [source_secret |-> "mysecret"] @@ ProdKwargs,
     [bogus |-> "x", git_ref |-> "commit2"] @@ ProdKwargs,
     [bogus |-> "x", git_ref |-> "commit2"] @@ SimpleKwargs}

InitParams ==
    InitOver({PROD_BUILD_TYPE, SIMPLE_BUILD_TYPE},
             {OuterTemplate(NoTriggers, FALSE, TRUE)},
             {InnerTemplate({}, "exit")})

SpecParams ==
    InitParams /\ [][NextProcess(KwParams, {<<1, 0, 6>>}, OneLimit,
                                 {PROD_BUILD_TYPE, SIMPLE_BUILD_TYPE,
                                  "prod-with-koji"})]_vars

\* C17: set_params with a mapping holding a name the variant's spec does
\* not declare fails with UnknownParameterError and leaves every stored
\* parameter value as it was, the declared names of the rejected mapping
\* included.
C17_UnknownRejected ==
    \A kw \in KwParams :
        (set_params(kw) /\ \E n \in DOMAIN kw : n \notin Accepted(key)) =>
            /\ last'.err = "UnknownParameterError"
            /\ params' = params

C17_UnknownParameter == [][C17_UnknownRejected]_vars

\* A rejected call after an accepted one: the accepted values still stored.
C17_Witness ==
    /\ last = Outcome("set_params", "UnknownParameterError")
    /\ params["git_uri"] = "git://example.com/repo"
    /\ params["git_ref"] = "commit1"

C18_Result ==
    last.op = "validate_input" =>
        /\ (\E n \in Required(key) : params[n] = None)
              => last.err = "ValidationError"
        /\ (\A n \in Required(key) : params[n] # None) => last.err = "none"

C18_Pure == last'.op = "validate_input" => params' = params

\* C18: validate fails with ValidationError whenever a required parameter
\* has no value and succeeds whenever every required parameter is set; it
\* changes no stored value, so its result is determined by the current
\* values alone, however often and wherever between set_params calls it
\* is called.
C18_Validate == [](C18_Result) /\ [][C18_Pure]_vars

\* Validation refused on a production spec lacking only vendor.
C18_Witness ==
    /\ last = Outcome("validate_input", "ValidationError")
    /\ key = PROD_BUILD_TYPE
    /\ params["vendor"] = None
    /\ \A n \in Required(key) \ {"vendor"} : params[n] # None

\* C19: render with validation as the first call on an instance, before
\* any set_params on it, fails with the unset-parameter ValidationError and
\* returns no document, whatever the process did before with other
\* instances.
C19_RenderBeforeSetParams ==
    [][(/\ last.op \in {"__init__", "new_by_type"} /\ last.err = "none"
        /\ render(TRUE)) =>
          (last'.err = "ValidationError" /\ build_json' = NoDoc)]_vars


----------------------------------------------------------------------------
(* The pipeline embedded in the document.                                  *)

\* The pipeline the manipulator holds.
ManipulatorPipeline == _inner_template[1]

\* C20: in every rendered document the DOCK_PLUGINS entry holds one string
\* whose JSON deserialization equals the pipeline the manipulator holds at
\* the end of that render, so every stage the render set, merged or removed
\* shows in the embedded pipeline.
C20_EmbeddedPipeline ==
    RenderOk =>
        /\ _inner_template # NoDoc
        /\ json_loads(Doc.DOCK_PLUGINS) = ManipulatorPipeline
        /\ Doc.DOCK_PLUGINS = json_dumps(ManipulatorPipeline)

\* A production render that removed the NFS stage, set the pulp registry
\* name and merged the labels, all of which the embedded pipeline shows.
C20_Witness ==
    /\ RenderOk /\ IsProd
    /\ ~dock_json_has_plugin_conf(ManipulatorPipeline, "postbuild_plugins",
                                  "cp_built_image_to_nfs")
    /\ ~HasPlugin("postbuild_plugins", "cp_built_image_to_nfs")
    /\ HasArg(Plugins, "postbuild_plugins", "pulp_push", "pulp_registry_name")
    /\ HasArg(Plugins, "prebuild_plugins", "add_labels_in_dockerfile", "labels")
    /\ Plugins = ManipulatorPipeline


----------------------------------------------------------------------------
(* Labels: the implicit labels merged into add_labels_in_dockerfile.       *)

ImplicitLabelParams ==
    [Architecture |-> "architecture", Vendor |-> "vendor",
     Build_Host |-> "build_host",
     Authoritative_Registry |-> "authoritative_registry"]

\* The args the templates declare for add_labels_in_dockerfile: labels under
\* other keys, a label under one of the implicit keys, no label, no labels
\* argument.
LabelArgs ==
    {[labels |-> [Release |-> "1"]],
     [labels |-> [Release |-> "1", Vendor |-> "Template Vendor"]],
     [labels |-> [Release |-> "1", distribution_scope |-> "private"]],
     [labels |-> EmptyArgs],
     EmptyArgs}

KwLabels ==
    {SimpleKwargs, ProdKwargs,
     [vendor |-> "Bar Vendor", architecture |-> "ppc64"] @@ ProdKwargs}

InitLabels ==
    InitOver({PROD_BUILD_TYPE, SIMPLE_BUILD_TYPE},
             {OuterTemplate(NoTriggers, TRUE, TRUE)},
             {WithPluginEntry(InnerTemplate({}, "exit"), "prebuild_plugins",
                              PluginWith("add_labels_in_dockerfile", a)) :
                 a \in LabelArgs})

SpecLabels == InitLabels /\ [][NextOver(KwLabels, {<<1, 0, 6>>}, OneLimit)]_vars

\* The labels the loaded pipeline template pre-sets.
TemplateLabels ==
    IF HasArg(store_inner, "prebuild_plugins", "add_labels_in_dockerfile", "labels")
    THEN ArgOf(store_inner, "prebuild_plugins", "add_labels_in_dockerfile", "labels")
    ELSE EmptyArgs

RenderedLabels ==
    ArgOf(Plugins, "prebuild_plugins", "add_labels_in_dockerfile", "labels")

\* C21: after a successful Production render the labels argument of
\* add_labels_in_dockerfile holds Architecture, Vendor, Build_Host and
\* Authoritative_Registry with the parameter values (overwriting what the
\* template pre-set under those keys) and every label the template pre-set
\* under another key, unchanged, and nothing else.
C21_LabelsMerged ==
    (RenderOk /\ IsProd) =>
        /\ HasArg(Plugins, "prebuild_plugins", "add_labels_in_dockerfile", "labels")
        /\ DOMAIN RenderedLabels = DOMAIN TemplateLabels \cup DOMAIN ImplicitLabelParams
        /\ \A l \in DOMAIN ImplicitLabelParams :
              RenderedLabels[l] = params[ImplicitLabelParams[l]]
        /\ \A l \in DOMAIN TemplateLabels \ DOMAIN ImplicitLabelParams :
              RenderedLabels[l] = TemplateLabels[l]

\* A render over a template that pre-set Release and Vendor: Release is
\* kept and Vendor is the parameter's.
C21_Witness ==
    /\ RenderOk /\ IsProd
    /\ TemplateLabels = [Release |-> "1", Vendor |-> "Template Vendor"]
    /\ params["vendor"] = "Bar Vendor"
    /\ RenderedLabels["Release"] = "1"
    /\ RenderedLabels["Vendor"] = "Bar Vendor"
    /\ RenderedLabels["Architecture"] = "ppc64"


----------------------------------------------------------------------------
(* Secrets: none configured.                                               *)

NoSecretSet == params["pulp_secret"] = None /\ params["pdc_secret"] = None

\* C22: after a successful Production render with neither the pulp secret
\* nor the pdc secret set, the document holds neither spec.source.sourceSecret
\* nor spec.strategy.customStrategy.secrets, whatever the platform version
\* and whatever the template declares.
C22_NoStaleSecrets ==
    (RenderOk /\ IsProd /\ NoSecretSet) =>
        /\ ~Doc.has_sourceSecret /\ Doc.sourceSecret_name = None
        /\ ~Doc.has_secrets /\ Doc.secrets = <<>>

\* A second render of an instance, at a version of the secrets array and
\* of a template declaring both substructures, after the secrets were unset.
C22_Witness ==
    /\ RenderOk /\ IsProd /\ NoSecretSet
    /\ renders = 2
    /\ store_outer.has_secrets /\ store_outer.has_sourceSecret
    /\ _openshift_required_version \in VersionsAtOrAbove
    /\ ~Doc.has_sourceSecret /\ ~Doc.has_secrets


----------------------------------------------------------------------------
(* The two outcomes of a render call.                                      *)

\* The DOCK_PLUGINS entry of the outer template the instance holds, or of
\* the stored one while none is loaded.
EmbeddedString(t) == IF t = NoDoc THEN store_outer.DOCK_PLUGINS ELSE t[1].DOCK_PLUGINS

C23_Returned ==
    (IsRenderStep /\ last'.err = "none") =>
        build_json' # NoDoc /\ build_json' = _template'

C23_Raised ==
    (IsRenderStep /\ last'.err # "none") =>
        /\ build_json' = build_json
        /\ EmbeddedString(_template') = EmbeddedString(_template)

\* C23: a render call either returns the rendered document and sets
\* build_json to it, or raises; when it raises, build_json keeps the value
\* it had before the call (None on a fresh instance) and the pipeline is
\* not serialized into the outer descriptor.
C23_TwoOutcomes == [][C23_Returned /\ C23_Raised]_vars


----------------------------------------------------------------------------
(* Renders of one instance, one after the other.                           *)

\* The render of the current parameters over templates freshly loaded from
\* the store.
FreshRender(secrets) ==
    IF key = PROD_BUILD_TYPE
    THEN ProductionBuild_render(Ctx(NoDoc, NoDoc), params, _resource_limits,
                                _openshift_required_version, secrets, FALSE)
    ELSE SimpleBuild_render(Ctx(NoDoc, NoDoc), params, _resource_limits,
                            _openshift_required_version, FALSE)

C24_AsFresh ==
    IsRenderOkStep =>
        \E secrets \in DictOrders(SecretsOf(params)) :
            /\ Ok(FreshRender(secrets))
            /\ build_json' = FreshRender(secrets).template
            /\ _inner_template' = FreshRender(secrets).inner

\* C24: each render starts from a freshly loaded outer template and
\* pipeline, so a successful render, a later one on the same instance
\* included, yields the document and the pipeline that a render of the same
\* parameters over the stored templates yields.
C24_FreshTemplates == [][C24_AsFresh]_vars


----------------------------------------------------------------------------
(* Instances of one process.                                               *)

\* C25: instances are isolated: an instance the factory has just returned
\* shows nothing of the instances the process used before it, neither a
\* parameter value nor a loaded template, pipeline, resource limit or
\* platform version, so that what it renders is what it renders alone.
C25_InstancesIsolated ==
    (last.op = "new_by_type" /\ last.err = "none") =>
        /\ params = EmptyParams
        /\ _template = NoDoc /\ _inner_template = NoDoc /\ build_json = NoDoc
        /\ _resource_limits = NoDoc
        /\ _openshift_required_version = DefaultRequiredVersion


----------------------------------------------------------------------------
(* Triggers of another type.                                               *)

OtherTriggerFirst ==
    /\ store_outer.has_triggers /\ store_outer.triggers # <<>>
    /\ store_outer.triggers[1].type # "ImageChange"

C26_Kept ==
    (/\ IsRenderStep /\ IsProd /\ _template = NoDoc
     /\ spec_validate(key, params) = "none"
     /\ OtherTriggerFirst) =>
        /\ last'.err = "none"
        /\ \A i \in 1..Len(store_outer.triggers) :
              store_outer.triggers[i].type # "ImageChange" =>
                  _template'[1].triggers[i] = store_outer.triggers[i]

\* C26: a template whose trigger list holds a trigger of another type,
\* alone or before the image-change trigger, is rendered without failing
\* and without modifying that other trigger.
C26_OtherTriggerUntouched == [][C26_Kept]_vars


----------------------------------------------------------------------------
(* Secret injection over the templates' secret substructures.              *)

\* A render of valid Production parameters with a secret configured, on an
\* instance that has loaded nothing yet, and in which the pulp auth check
\* has nothing to refuse.
SecretRenderStep ==
    /\ IsRenderStep /\ IsProd /\ _template = NoDoc
    /\ spec_validate(key, params) = "none"
    /\ ~NoSecretSet
    /\ ~(Truthy(params["pulp_registry"]) /\ params["pulp_secret"] = None)

C27_Injection ==
    SecretRenderStep =>
        IF store_outer.has_sourceSecret \/ store_outer.has_secrets
        THEN last'.err = "none"
        ELSE last'.err = "ValidationError"

\* C27: a render with a secret configured fails in secret injection, with
\* ValidationError, exactly when the loaded template declares neither the
\* secrets array nor sourceSecret; when the template declares either of
\* them it does not fail, whatever the platform version.
C27_SecretInjection == [][C27_Injection]_vars


----------------------------------------------------------------------------
(* Stages that render configures unconditionally.                          *)

UnconditionalStages ==
    {"distgit_fetch_artefacts", "pull_base_image", "add_labels_in_dockerfile"}

InitStages ==
    InitOver({PROD_BUILD_TYPE, SIMPLE_BUILD_TYPE},
             {OuterTemplate(NoTriggers, FALSE, TRUE)},
             {InnerTemplate(omit, meta) :
                 omit \in {{}} \cup {{n} : n \in UnconditionalStages},
                 meta \in {"exit", "postbuild", "no_exit_plugins", "neither"}})

SpecStages == InitStages /\ [][NextOver(KwMetadata, {<<1, 0, 6>>}, OneLimit)]_vars

\* Pipeline p lacks a stage that a render of the current variant configures
\* whatever the parameters are.
LacksUnconditionalStage(p) ==
    \/ \A phase \in MetadataPhases : ~dock_json_has_plugin_conf(p, phase, MetadataStage)
    \/ /\ IsProd
       /\ \E n \in UnconditionalStages :
             ~dock_json_has_plugin_conf(p, "prebuild_plugins", n)

C28_Terminal ==
    (/\ IsRenderStep /\ spec_validate(key, params) = "none"
     /\ LacksUnconditionalStage(CurPipeline)) =>
        last'.err = "StageNotFoundError" /\ build_json' = NoDoc

C28_Recovered ==
    (/\ IsRenderStep /\ spec_validate(key, params) = "none"
     /\ ~LacksUnconditionalStage(CurPipeline)
     /\ ~dock_json_has_plugin_conf(CurPipeline, "exit_plugins", MetadataStage)) =>
        /\ last'.err = "none"
        /\ ArgOf(_inner_template'[1], "postbuild_plugins", MetadataStage, "url")
               = params["openshift_uri"]

----------------------------------------------------------------------------
(* Validation before rendering.                                            *)

C29_NothingTouched ==
    (render(TRUE) /\ spec_validate(key, params) # "none") =>
        /\ last'.err = "ValidationError"
        /\ _template' = _template /\ _inner_template' = _inner_template
        /\ build_json' = build_json

\* Every render the instance was asked for so far failed validation.
OnlyRefusedRenders == renders > 0 /\ _template = NoDoc /\ _inner_template = NoDoc

C29_ThenAsFresh ==
    (IsRenderOkStep /\ OnlyRefusedRenders) =>
        \E secrets \in DictOrders(SecretsOf(params)) :
            build_json' = FreshRender(secrets).template

\* C29: a render(validate=true) that fails parameter validation has touched
\* nothing: the outer template and the pipeline are as they were (not
\* loaded, if they were not), and so is build_json; a render of valid
\* values that follows on the same instance yields the document a fresh
\* instance yields.
C29_ValidationFirst == [][C29_NothingTouched /\ C29_ThenAsFresh]_vars

\* A Production render refused for a missing required value, on an
\* instance that has loaded no template.
C29_Witness ==
    /\ last = Outcome("render", "ValidationError") /\ IsProd
    /\ params["git_uri"] # None /\ params["vendor"] = None
    /\ renders = 1
    /\ _template = NoDoc /\ _inner_template = NoDoc /\ build_json = NoDoc


----------------------------------------------------------------------------
(* The bare image tag and the pulp_push stage.                             *)

\* C30: in every successfully rendered Production document whose
\* spec.output.to.name is the bare image tag the embedded pipeline has the
\* pulp_push stage, and a document that mounts the pulp secret has the
\* stage that consumes it.
C30_BareTagHasPulpPush ==
    (RenderOk /\ IsProd) =>
        /\ Doc.output_to_name = ImageTagOf(params) =>
              HasPlugin("postbuild_plugins", "pulp_push")
        /\ (\E i \in 1..Len(Doc.secrets) :
               Doc.secrets[i].name = params["pulp_secret"]) =>
              HasPlugin("postbuild_plugins", "pulp_push")

====
